---- MODULE Spec2Model ----
(***************************************************************************)
(* Model of DrawingApp (src/drawing_app.py): one Tk window controller that *)
(* owns a PIL bitmap (self.image) and a Tk canvas, and mutates both from   *)
(* pointer and button callbacks.  Every callback runs to completion on the *)
(* single UI thread, so each callback is one action.                       *)
(*                                                                         *)
(* Python strings are sequences of one-character strings, so that         *)
(* str.endswith, the f-string hex formatting and the colour parsing of the *)
(* image library are computed and not assumed.  An optional value is the  *)
(* empty tuple (None) or a one-element tuple.                              *)
(*                                                                         *)
(* The bitmap is its size, the colour it was created with and the drawing  *)
(* calls made on it since; a pixel's colour is computed from these.  The   *)
(* canvas is its configured size and background and its list of items.    *)
(* Left out: the window being hidden and shown again around the prompts of *)
(* add_text and change_canvas_size, the option menu's StringVar, and the   *)
(* debugging print of pick_color; no handler reads them.                   *)
(***************************************************************************)
EXTENDS Integers, Sequences, FiniteSets

VARIABLES width, height, image, canvas, photo, pen_color, previous_color,
          last_x, last_y, brush_size, color_preview, files, messages, op

vars == <<width, height, image, canvas, photo, pen_color, previous_color,
          last_x, last_y, brush_size, color_preview, files, messages, op>>

(* ---------------------------------------------------------------- values *)

None == <<>>
Some(v) == <<v>>

\* Python truthiness of an optional integer: None and 0 are false.
TruthyInt(o) == o # None /\ o[1] # 0

\* Python truthiness of an optional string: None and '' are false.
TruthyStr(o) == o # None /\ Len(o[1]) > 0

white == <<"w", "h", "i", "t", "e">>
black == <<"b", "l", "a", "c", "k">>
dot_png == <<".", "p", "n", "g">>

\* str.endswith
endswith(s, suffix) ==
    /\ Len(s) >= Len(suffix)
    /\ SubSeq(s, Len(s) - Len(suffix) + 1, Len(s)) = suffix

HexDigits == <<"0", "1", "2", "3", "4", "5", "6", "7",
               "8", "9", "a", "b", "c", "d", "e", "f">>

\* format spec 02x of one colour channel (0..255)
Hex02(n) == <<HexDigits[(n \div 16) + 1], HexDigits[(n % 16) + 1]>>

\* f'#{color[0]:02x}{color[1]:02x}{color[2]:02x}'
FormatHex(color) == <<"#">> \o Hex02(color[1]) \o Hex02(color[2]) \o Hex02(color[3])

HexValue(ch) == CHOOSE v \in 0..15 : HexDigits[v + 1] = ch

\* The image library's reading of a colour string: a colour name, or #rrggbb.
getrgb(color) ==
    IF color = white THEN <<255, 255, 255>>
    ELSE IF color = black THEN <<0, 0, 0>>
    ELSE <<16 * HexValue(color[2]) + HexValue(color[3]),
           16 * HexValue(color[4]) + HexValue(color[5]),
           16 * HexValue(color[6]) + HexValue(color[7])>>

\* int(selected_size): a decimal string to an integer
Digits == <<"0", "1", "2", "3", "4", "5", "6", "7", "8", "9">>
DigitValue(ch) == CHOOSE v \in 0..9 : Digits[v + 1] = ch
RECURSIVE int(_)
int(s) == IF Len(s) = 0 THEN 0
          ELSE 10 * int(SubSeq(s, 1, Len(s) - 1)) + DigitValue(s[Len(s)])

(* ------------------------------------------------------------ the bitmap *)

\* Image.new("RGB", (w, h), color): a bitmap of one colour, nothing drawn.
Image_new(w, h, color) == [size |-> <<w, h>>, fill |-> getrgb(color), ops |-> <<>>]

\* The arguments shared by canvas.create_line and draw.line.
Segment(x0, y0, x1, y1, color, w) ==
    [kind |-> "line", xy |-> <<x0, y0, x1, y1>>, fill |-> color, width |-> w]

\* draw.line(...) / draw.text(...): the bitmap after one more drawing call.
Image_draw(img, call) == [img EXCEPT !.ops = Append(@, call)]

\* Whether a line of the bitmap inks pixel (x, y): the pixels within half the
\* line width of the segment.
LineCovers(l, x, y) ==
    LET dx == l.xy[3] - l.xy[1]
        dy == l.xy[4] - l.xy[2]
        px == x - l.xy[1]
        py == y - l.xy[2]
        len2 == dx * dx + dy * dy
        along == px * dx + py * dy
        across == px * dy - py * dx
    IN  IF len2 = 0 THEN 4 * (px * px + py * py) <= l.width * l.width
        ELSE /\ along >= 0
             /\ along <= len2
             /\ 4 * across * across <= l.width * l.width * len2

\* Whether a stamped text may ink pixel (x, y): the glyphs lie right of and
\* below the anchor; which pixels they ink depends on the font.
TextMayCover(t, x, y) == x >= t.xy[1] /\ y >= t.xy[2]

\* image.getpixel((x, y)): the colours pixel (x, y) can have, the drawing
\* calls applied in order over the fill colour.  A singleton unless a text
\* may cover the pixel.
RECURSIVE PixelAfter(_, _, _, _)
PixelAfter(img, n, x, y) ==
    IF n = 0 THEN {img.fill}
    ELSE LET call == img.ops[n]
         IN  IF call.kind = "line"
             THEN IF LineCovers(call, x, y) THEN {getrgb(call.fill)}
                  ELSE PixelAfter(img, n - 1, x, y)
             ELSE IF TextMayCover(call, x, y)
                  THEN {getrgb(call.fill)} \cup PixelAfter(img, n - 1, x, y)
                  ELSE PixelAfter(img, n - 1, x, y)

getpixel(img, x, y) == PixelAfter(img, Len(img.ops), x, y)

(* ------------------------------------------------------------ the canvas *)

\* create_line without its width option: the canvas draws with its default width.
create_line_default_width(cv, seg) ==
    [cv EXCEPT !.items = Append(@, [kind |-> "line", xy |-> seg.xy, fill |-> seg.fill,
                                    width |-> 1, capstyle |-> "round",
                                    smooth |-> TRUE])]

\* canvas.create_line(x0, y0, x1, y1, width, fill, capstyle=ROUND, smooth=TRUE)
create_line(cv, seg) ==
    [cv EXCEPT !.items = Append(@, [kind |-> "line", xy |-> seg.xy, fill |-> seg.fill,
                                    width |-> seg.width, capstyle |-> "round",
                                    smooth |-> TRUE])]

\* canvas.delete("all")
delete_all(cv) == [cv EXCEPT !.items = <<>>]

\* canvas.create_image(0, 0, image=self.photo, anchor=tk.NW)
create_image(cv) ==
    [cv EXCEPT !.items = Append(@, [kind |-> "image", xy |-> <<0, 0>>, anchor |-> "nw"])]

\* The segments among the canvas items, in drawing order.
RECURSIVE CanvasSegments(_)
CanvasSegments(items) ==
    IF items = <<>> THEN <<>>
    ELSE LET rest == CanvasSegments(Tail(items))
             it == Head(items)
         IN  IF it.kind = "line"
             THEN <<Segment(it.xy[1], it.xy[2], it.xy[3], it.xy[4], it.fill, it.width)>> \o rest
             ELSE rest

\* The segments among the bitmap's drawing calls, in drawing order.
RECURSIVE ImageSegments(_)
ImageSegments(ops) ==
    IF ops = <<>> THEN <<>>
    ELSE LET rest == ImageSegments(Tail(ops))
         IN  IF Head(ops).kind = "line" THEN <<Head(ops)>> \o rest ELSE rest

(* ---------------------------------------------------------------- bounds *)

\* Drawing calls one bitmap holds before it is cleared or replaced.
MaxOps == 1
\* Files written in one session.
MaxSaves == 1

\* simpledialog.askinteger(..., minvalue=100, maxvalue=1500) and (100, 1000)
MinWidth == 100
MaxWidth == 1500
MinHeight == 100
MaxHeight == 1000

(* ---------------------------------------------------------------- inputs *)

\* sizes = [1, 2, 5, 10]; the option menu hands the selection over as a string
sizes == <<<<"1">>, <<"2">>, <<"5">>, <<"1", "0">>>>

\* colorchooser.askcolor()[1]: None when cancelled, else a #rrggbb string
red == <<"#", "f", "f", "0", "0", "0", "0">>
ColorAnswers == {None, Some(red)}

\* simpledialog.askstring: None when cancelled, else the text (possibly empty)
TextAnswers == {None, Some(<<>>), Some(<<"H", "i">>)}

\* simpledialog.askinteger without bounds: None when cancelled
CoordAnswers == {None, Some(1)}

\* simpledialog.askinteger with bounds: None, or an integer within them
WidthAnswers == {None} \cup {Some(w) : w \in {n \in {800} : MinWidth <= n /\ n <= MaxWidth}}
HeightAnswers == {None} \cup {Some(h) : h \in {n \in {300} : MinHeight <= n /\ n <= MaxHeight}}

\* filedialog.asksaveasfilename: '' when cancelled, else the chosen path
PathAnswers == {<<>>, <<"o", "u", "t">>, <<"a", ".", "p", "n", "g">>, <<"p", "n", "g">>}

\* Pointer positions of right clicks.
PickPoints == {<<-1, 2>>, <<2, -1>>, <<2, 2>>, <<700, 2>>, <<2, 350>>}

\* Pointer positions of motion events, and brush sizes selected, where the
\* canvas handlers are explored.
PaintXs == {2}
PaintYs == {2}
BrushChoices == {sizes[1], sizes[4]}

\* Pointer positions of motion events where strokes are explored.
StrokeXs == {0, 2}
StrokeYs == {0, 2}

(* ----------------------------------------------------------------- state *)

\* DrawingApp.__init__ followed by setup_ui.  photo tells whether a
\* PhotoImage exists (its pixels are a copy no handler reads back); files is
\* the file system, written only by save_image; messages counts the
\* confirmation dialogs shown; op names the handler that ran last, whether
\* it took its effect and, for paint, the stroke cursor it found.
Init ==
    /\ width = 600
    /\ height = 400
    /\ image = Image_new(600, 400, white)
    /\ canvas = [width |-> 600, height |-> 400, bg |-> white, items |-> <<>>]
    /\ photo = FALSE
    /\ pen_color = black
    /\ last_x = None
    /\ last_y = None
    /\ previous_color = black
    /\ brush_size = 1
    /\ color_preview = black
    /\ files = {}
    /\ messages = 0
    /\ op = [name |-> "init", applied |-> TRUE]

(* -------------------------------------------------------------- handlers *)

\* update_canvas: the canvas shows the bitmap
update_canvas(cv) == create_image(delete_all(cv))

\* change_background_color, the colour dialog answering new_color
change_background_color(new_color) ==
    /\ IF TruthyStr(new_color)
       THEN /\ image' = Image_new(width, height, new_color[1])
            /\ canvas' = update_canvas([canvas EXCEPT !.bg = new_color[1]])
            /\ photo' = TRUE
       ELSE UNCHANGED <<image, canvas, photo>>
    /\ op' = [name |-> "change_background_color", applied |-> TruthyStr(new_color)]
    /\ UNCHANGED <<width, height, pen_color, previous_color, last_x, last_y,
                   brush_size, color_preview, files, messages>>

\* Whether add_text stamps: the text given, and both coordinates given.
TextGiven(text, x, y) == TruthyStr(text) /\ x # None /\ y # None

\* add_text, the dialogs answering text, x and y (x and y are asked only
\* when the text is given)
add_text(text, x, y) ==
    /\ IF TextGiven(text, x, y)
       THEN /\ Len(image.ops) < MaxOps
            /\ image' = Image_draw(image, [kind |-> "text", xy |-> <<x[1], y[1]>>,
                                           text |-> text[1], fill |-> pen_color])
            /\ canvas' = update_canvas(canvas)
            /\ photo' = TRUE
       ELSE UNCHANGED <<image, canvas, photo>>
    /\ op' = [name |-> "add_text", applied |-> TextGiven(text, x, y)]
    /\ UNCHANGED <<width, height, pen_color, previous_color, last_x, last_y,
                   brush_size, color_preview, files, messages>>

\* clear_canvas with the start-up size written out instead of self.width, self.height.
clear_canvas_startup_size ==
    /\ canvas' = delete_all(canvas)
    /\ image' = Image_new(600, 400, white)
    /\ op' = [name |-> "clear_canvas", applied |-> TRUE]
    /\ UNCHANGED <<width, height, photo, pen_color, previous_color, last_x, last_y,
                   brush_size, color_preview, files, messages>>

\* clear_canvas
clear_canvas ==
    /\ canvas' = delete_all(canvas)
    /\ image' = Image_new(width, height, white)
    /\ op' = [name |-> "clear_canvas", applied |-> TRUE]
    /\ UNCHANGED <<width, height, photo, pen_color, previous_color, last_x, last_y,
                   brush_size, color_preview, files, messages>>

\* Whether change_canvas_size resizes: both dialogs answered.
SizeGiven(new_width, new_height) == TruthyInt(new_width) /\ TruthyInt(new_height)

\* change_canvas_size with its call of clear_canvas moved out of the if.
change_canvas_size_always_clears(new_width, new_height) ==
    /\ IF SizeGiven(new_width, new_height)
       THEN /\ width' = new_width[1]
            /\ height' = new_height[1]
            /\ canvas' = delete_all([canvas EXCEPT !.width = new_width[1],
                                                   !.height = new_height[1]])
            /\ image' = Image_new(new_width[1], new_height[1], white)
       ELSE /\ canvas' = delete_all(canvas)
            /\ image' = Image_new(width, height, white)
            /\ UNCHANGED <<width, height>>
    /\ op' = [name |-> "change_canvas_size", applied |-> SizeGiven(new_width, new_height)]
    /\ UNCHANGED <<photo, pen_color, previous_color, last_x, last_y,
                   brush_size, color_preview, files, messages>>

\* change_canvas_size, the two dialogs answering new_width and new_height;
\* its last statement is a call of clear_canvas
change_canvas_size(new_width, new_height) ==
    /\ IF SizeGiven(new_width, new_height)
       THEN /\ width' = new_width[1]
            /\ height' = new_height[1]
            /\ canvas' = delete_all([canvas EXCEPT !.width = new_width[1],
                                                   !.height = new_height[1]])
            /\ image' = Image_new(new_width[1], new_height[1], white)
       ELSE UNCHANGED <<width, height, canvas, image>>
    /\ op' = [name |-> "change_canvas_size", applied |-> SizeGiven(new_width, new_height)]
    /\ UNCHANGED <<photo, pen_color, previous_color, last_x, last_y,
                   brush_size, color_preview, files, messages>>

\* update_brush_size(selected_size)
update_brush_size(selected_size) ==
    /\ brush_size' = int(selected_size)
    /\ op' = [name |-> "update_brush_size", applied |-> TRUE]
    /\ UNCHANGED <<width, height, image, canvas, photo, pen_color, previous_color,
                   last_x, last_y, color_preview, files, messages>>

\* The test paint makes of the stroke cursor: if self.last_x and self.last_y
HasCursor(lx, ly) == TruthyInt(lx) /\ TruthyInt(ly)

\* paint(event): pointer motion with the left button held, at (x, y)
paint(x, y) ==
    /\ IF HasCursor(last_x, last_y)
       THEN LET seg == Segment(last_x[1], last_y[1], x, y, pen_color, brush_size)
            IN  /\ Len(image.ops) < MaxOps
                /\ canvas' = create_line(canvas, seg)
                /\ image' = Image_draw(image, seg)
       ELSE UNCHANGED <<canvas, image>>
    /\ last_x' = Some(x)
    /\ last_y' = Some(y)
    /\ op' = [name |-> "paint", applied |-> HasCursor(last_x, last_y),
              from |-> <<last_x, last_y>>]
    /\ UNCHANGED <<width, height, photo, pen_color, previous_color,
                   brush_size, color_preview, files, messages>>

\* reset that leaves the stroke cursor in place.
reset_keeps_cursor ==
    /\ op' = [name |-> "reset", applied |-> TRUE]
    /\ UNCHANGED <<width, height, image, canvas, photo, pen_color, previous_color,
                   last_x, last_y, brush_size, color_preview, files, messages>>

\* reset(event): left button released
reset ==
    /\ last_x' = None
    /\ last_y' = None
    /\ op' = [name |-> "reset", applied |-> TRUE]
    /\ UNCHANGED <<width, height, image, canvas, photo, pen_color, previous_color,
                   brush_size, color_preview, files, messages>>

\* choose_color, the colour dialog answering new_color
choose_color(new_color) ==
    /\ IF TruthyStr(new_color)
       THEN /\ pen_color' = new_color[1]
            /\ color_preview' = new_color[1]
       ELSE UNCHANGED <<pen_color, color_preview>>
    /\ op' = [name |-> "choose_color", applied |-> TruthyStr(new_color)]
    /\ UNCHANGED <<width, height, image, canvas, photo, previous_color,
                   last_x, last_y, brush_size, files, messages>>

\* use_eraser
use_eraser ==
    /\ pen_color' = white
    /\ color_preview' = white
    /\ op' = [name |-> "use_eraser", applied |-> TRUE]
    /\ UNCHANGED <<width, height, image, canvas, photo, previous_color,
                   last_x, last_y, brush_size, files, messages>>

\* The bounds test against the start-up size instead of the current one.
InBoundsStartupSize(x, y, w, h) == 0 <= x /\ x < 600 /\ 0 <= y /\ y < 400

\* The bounds test of pick_color: 0 <= x < self.width and 0 <= y < self.height
InBounds(x, y, w, h) == 0 <= x /\ x < w /\ 0 <= y /\ y < h

\* pick_color(event): right click at (x, y)
pick_color(x, y) ==
    /\ IF InBounds(x, y, width, height)
       THEN \E color \in getpixel(image, x, y) :
                /\ pen_color' = FormatHex(color)
                /\ color_preview' = FormatHex(color)
       ELSE UNCHANGED <<pen_color, color_preview>>
    /\ op' = [name |-> "pick_color", applied |-> InBounds(x, y, width, height)]
    /\ UNCHANGED <<width, height, image, canvas, photo, previous_color,
                   last_x, last_y, brush_size, files, messages>>

\* The extension appended without the endswith test.
SavePathAlwaysAppends(file_path) == file_path \o dot_png

\* The path save_image writes to.
SavePath(file_path) ==
    IF ~endswith(file_path, dot_png) THEN file_path \o dot_png ELSE file_path

\* image.save(path): the file at path now holds the bitmap
Image_save(fs, path, img) ==
    {f \in fs : f.path # path} \cup {[path |-> path, content |-> img]}

\* save_image, the file dialog answering file_path
save_image(file_path) ==
    /\ IF Len(file_path) > 0
       THEN /\ messages < MaxSaves
            /\ files' = Image_save(files, SavePath(file_path), image)
            /\ messages' = messages + 1
       ELSE UNCHANGED <<files, messages>>
    /\ op' = [name |-> "save_image", applied |-> Len(file_path) > 0]
    /\ UNCHANGED <<width, height, image, canvas, photo, pen_color, previous_color,
                   last_x, last_y, brush_size, color_preview>>

(* -------------------------------------------------------- specifications *)

\* One event of the Tk main loop.  files and messages are written by
\* save_image alone and read by no handler, so the file dialog is cancelled
\* here and answered in SpecSave.
Next ==
    \/ \E x \in PaintXs, y \in PaintYs : paint(x, y)
    \/ reset
    \/ clear_canvas
    \/ \E c \in ColorAnswers : choose_color(c)
    \/ use_eraser
    \/ \E p \in PickPoints : pick_color(p[1], p[2])
    \/ \E c \in ColorAnswers : change_background_color(c)
    \/ \E t \in TextAnswers :
           IF TruthyStr(t)
           THEN \E x \in CoordAnswers, y \in CoordAnswers : add_text(t, x, y)
           ELSE add_text(t, None, None)
    \/ \E w \in WidthAnswers, h \in HeightAnswers : change_canvas_size(w, h)
    \/ \E s \in BrushChoices : update_brush_size(s)
    \/ save_image(<<>>)

Spec == Init /\ [][Next]_vars

\* The events of drawing strokes: every pointer position of StrokeXs x
\* StrokeYs, every brush size of the menu.
NextStroke ==
    \/ \E x \in StrokeXs, y \in StrokeYs : paint(x, y)
    \/ reset
    \/ \E c \in ColorAnswers : choose_color(c)
    \/ use_eraser
    \/ \E i \in 1..Len(sizes) : update_brush_size(sizes[i])

SpecStroke == Init /\ [][NextStroke]_vars

\* The events that replace the bitmap or draw lines on it, and saving it.
NextSave ==
    \/ \E x \in PaintXs, y \in PaintYs : paint(x, y)
    \/ clear_canvas
    \/ use_eraser
    \/ \E c \in ColorAnswers : change_background_color(c)
    \/ \E w \in WidthAnswers, h \in HeightAnswers : change_canvas_size(w, h)
    \/ \E p \in PathAnswers : save_image(p)

SpecSave == Init /\ [][NextSave]_vars

(* ---------------------------------------------------------------- claims *)

\* Everything but op.
state == <<width, height, image, canvas, photo, pen_color, previous_color,
           last_x, last_y, brush_size, color_preview, files, messages>>

\* The sampled pixels that lie within a bitmap.
PixelsOf(img) ==
    {p \in PickPoints :
        0 <= p[1] /\ p[1] < img.size[1] /\ 0 <= p[2] /\ p[2] < img.size[2]}

\* C1: right after use_eraser the pen colour is the canvas's current
\* background colour, whatever change_background_color has set it to.
C1_EraserTakesBackground ==
    op.name = "use_eraser" => getrgb(pen_color) = getrgb(canvas.bg)

\* C2: right after clear_canvas nothing drawn remains in the bitmap and every
\* pixel of it has the canvas's current background colour.
C2_ClearFillsBackground ==
    op.name = "clear_canvas" =>
        /\ image.ops = <<>>
        /\ \A p \in PixelsOf(image) : getpixel(image, p[1], p[2]) = {getrgb(canvas.bg)}

\* C3: in every state the bitmap's size, the canvas widget's size and the
\* stored (width, height) are the same; so a clear_canvas after a resize to
\* 800 x 300 leaves a bitmap of exactly 800 x 300.
C3_DimensionsAgree ==
    /\ image.size = <<width, height>>
    /\ canvas.width = width
    /\ canvas.height = height
    /\ (op.name = "clear_canvas" /\ canvas.width = 800 /\ canvas.height = 300
            => image.size = <<800, 300>>)

C3_Witness ==
    /\ op.name = "clear_canvas"
    /\ width = 800
    /\ height = 300
    /\ image.size = <<800, 300>>

\* C4: a pick_color outside [0, width) x [0, height) of the current size
\* changes nothing; one inside makes the pen colour the colour of the
\* bitmap's pixel there and leaves the rest alone.
C4_PickColor ==
    [][op'.name = "pick_color" => \A p \in PickPoints :
          pick_color(p[1], p[2]) =>
              IF 0 <= p[1] /\ p[1] < width /\ 0 <= p[2] /\ p[2] < height
              THEN /\ getrgb(pen_color') \in getpixel(image, p[1], p[2])
                   /\ UNCHANGED <<width, height, image, canvas, photo, previous_color,
                                  last_x, last_y, brush_size, files, messages>>
              ELSE UNCHANGED state]_vars

\* A click outside the resized canvas, the pen still holding the black picked
\* from a drawn pixel before.
C4_Witness ==
    /\ op.name = "pick_color"
    /\ ~op.applied
    /\ height = 300
    /\ pen_color = <<"#", "0", "0", "0", "0", "0", "0">>

\* C5: the paint that follows reset, or start-up, or finds no cursor, draws
\* on neither surface and only sets the stroke cursor to its position.
C5_FirstPaintOnlySetsCursor ==
    [][op'.name = "paint" => \A x \in StrokeXs, y \in StrokeYs :
          (/\ paint(x, y)
           /\ \/ op.name \in {"init", "reset"}
              \/ (last_x = None /\ last_y = None))
          => /\ canvas' = canvas
             /\ image' = image
             /\ last_x' = Some(x)
             /\ last_y' = Some(y)
             /\ UNCHANGED <<width, height, photo, pen_color, previous_color,
                            brush_size, color_preview, files, messages>>]_vars

\* A paint that found no cursor, after a stroke that drew.
C5_Witness ==
    /\ op.name = "paint"
    /\ op.from = <<None, None>>
    /\ ~op.applied
    /\ image.ops # <<>>
    /\ last_x # None

C7_SaveImage ==
    [][op'.name = "save_image" => \A p \in PathAnswers :
          save_image(p) =>
              IF p = <<>>
              THEN UNCHANGED state
              ELSE \E name \in {p, p \o dot_png} :
                      /\ endswith(name, dot_png)
                      /\ endswith(p, dot_png) => name = p
                      /\ p = <<"o", "u", "t">> => name = <<"o", "u", "t", ".", "p", "n", "g">>
                      /\ [path |-> name, content |-> image] \in files'
                      /\ \A f \in files' : f.path = name => f.content = image
                      /\ {f \in files' : f.path # name} = {f \in files : f.path # name}
                      /\ messages' = messages + 1
                      /\ UNCHANGED <<width, height, image, canvas, photo, pen_color,
                                     previous_color, last_x, last_y, brush_size,
                                     color_preview>>]_vars

\* 'out.png' written with a bitmap that holds a drawing.
C7_Witness ==
    /\ op.name = "save_image"
    /\ op.applied
    /\ image.ops # <<>>
    /\ files = {[path |-> <<"o", "u", "t", ".", "p", "n", "g">>, content |-> image]}
    /\ messages = 1

\* C8: a cancelled dialog changes nothing: choose_color and
\* change_background_color with the colour dialog cancelled, add_text with
\* the text, X or Y prompt cancelled, change_canvas_size with the width or
\* the height prompt cancelled.
C8_CancelChangesNothing ==
    [][/\ op'.name = "choose_color" =>
             (choose_color(None) => UNCHANGED state)
       /\ op'.name = "change_background_color" =>
             (change_background_color(None) => UNCHANGED state)
       /\ op'.name = "add_text" =>
             \A t \in TextAnswers, x \in CoordAnswers, y \in CoordAnswers :
                (add_text(t, x, y) /\ (t = None \/ x = None \/ y = None))
                => UNCHANGED state
       /\ op'.name = "change_canvas_size" =>
             \A w \in WidthAnswers, h \in HeightAnswers :
                (change_canvas_size(w, h) /\ (w = None \/ h = None))
                => UNCHANGED state]_vars

\* A size dialog cancelled over a bitmap that holds a drawing, on a canvas
\* whose background was changed.
C8_Witness ==
    /\ op.name = "change_canvas_size"
    /\ ~op.applied
    /\ image.ops # <<>>
    /\ canvas.bg = red

\* C9: a paint that finds a cursor position, zero coordinates included,
\* draws the segment from it to its own position on both surfaces.
C9_PaintDrawsFromCursor ==
    (op.name = "paint" /\ op.from[1] # None /\ op.from[2] # None) =>
        LET xy == <<op.from[1][1], op.from[2][1], last_x[1], last_y[1]>>
        IN  /\ canvas.items # <<>>
            /\ canvas.items[Len(canvas.items)].kind = "line"
            /\ canvas.items[Len(canvas.items)].xy = xy
            /\ image.ops # <<>>
            /\ image.ops[Len(image.ops)].kind = "line"
            /\ image.ops[Len(image.ops)].xy = xy

\* C10: the background the canvas shows where nothing is drawn and the
\* colour of the bitmap's undrawn pixels are the same colour in every state.
C10_BackgroundLockstep ==
    getrgb(canvas.bg) = image.fill

====
